---- MODULE Spec2Model ----
(***************************************************************************)
(* A model of the easyapi data-access layer: the Transaction scope, the    *)
(* filter compiler search_sql, the BaseDao / BusinessBaseDao repository    *)
(* operations and the controller facade of async_easyapi.                  *)
(***************************************************************************)
EXTENDS Integers, Sequences, FiniteSets, TLC

VARIABLES
    tx,      \* per Transaction object: its fields and the position of its scope
    owner,   \* per pooled connection: the scope that checked it out, 0 = in the pool
    table,   \* the rows of the bound table
    clock,   \* what datetime.datetime.now() returns next
    autoinc, \* the AUTO_INCREMENT counter of the table's id column
    last,    \* the repository call made last and what it returned
    ctl      \* the controller call in flight and what it returned

vars == <<tx, owner, table, clock, autoinc, last, ctl>>

txVars == <<tx, owner>>
daoVars == <<table, clock, autoinc, last>>

(***************************************************************************)
(* Bounds                                                                  *)
(***************************************************************************)
NScopes == 2
PoolSize == 2
MaxWork == 1
MaxClock == 3
MaxRows == 2

Scopes == 1..NScopes
Conns == 1..PoolSize

(***************************************************************************)
(* Transaction (dao.py, class Transaction).                                *)
(*   pc         where the `async with get_tx(db)` statement stands         *)
(*   connect    self._connect (0 = None)                                   *)
(*   txn        state of self._transaction                                 *)
(*   work       statements the body executed on the connection             *)
(*   bodyExc    the body raised                                            *)
(*   commitExc  commit() raised                                            *)
(*   rollbacks  calls of rollback()                                        *)
(*   pending    the exception __aexit__ is about to raise                  *)
(*   raised     the exception the caller of the scope sees                 *)
(***************************************************************************)
NoConn == 0

TxInit ==
    [pc |-> "start", connect |-> NoConn, txn |-> "none", work |-> 0,
     bodyExc |-> FALSE, commitExc |-> FALSE, rollbacks |-> 0,
     pending |-> "none", raised |-> "none"]

\* Transaction.__init__ and the idle pool
InitTransaction ==
    /\ tx = [s \in Scopes |-> TxInit]
    /\ owner = [c \in Conns |-> 0]

\* __aenter__: self._connect = await self._db._engine.acquire()
AenterAcquire(s) ==
    /\ tx[s].pc = "start"
    /\ \E c \in Conns :
          /\ owner[c] = 0
          /\ owner' = [owner EXCEPT ![c] = s]
          /\ tx' = [tx EXCEPT ![s].connect = c, ![s].pc = "acquired"]
    /\ UNCHANGED <<daoVars, ctl>>

\* __aenter__: acquire() raises; nothing was assigned, __aexit__ is not run
AenterAcquireFail(s) ==
    /\ tx[s].pc = "start"
    /\ tx' = [tx EXCEPT ![s].pc = "left", ![s].raised = "acquire"]
    /\ UNCHANGED owner
    /\ UNCHANGED <<daoVars, ctl>>

\* __aenter__: self._transaction = await self._connect.begin(); return
AenterBegin(s) ==
    /\ tx[s].pc = "acquired"
    /\ tx' = [tx EXCEPT ![s].txn = "active", ![s].pc = "body"]
    /\ UNCHANGED owner
    /\ UNCHANGED <<daoVars, ctl>>

\* __aenter__: begin() raises; the with statement does not run __aexit__
\* when __aenter__ raised
AenterBeginFail(s) ==
    /\ tx[s].pc = "acquired"
    /\ tx' = [tx EXCEPT ![s].pc = "left", ![s].raised = "begin"]
    /\ UNCHANGED owner
    /\ UNCHANGED <<daoVars, ctl>>

\* the body of the scope executes one statement on the connection
BodyExecute(s) ==
    /\ tx[s].pc = "body"
    /\ tx[s].work < MaxWork
    /\ tx' = [tx EXCEPT ![s].work = @ + 1]
    /\ UNCHANGED owner
    /\ UNCHANGED <<daoVars, ctl>>

\* the body ends normally: __aexit__(None, None, None)
BodyReturn(s) ==
    /\ tx[s].pc = "body"
    /\ tx' = [tx EXCEPT ![s].pc = "exit"]
    /\ UNCHANGED owner
    /\ UNCHANGED <<daoVars, ctl>>

\* the body raises: __aexit__(exc_type, exc, tb)
BodyRaise(s) ==
    /\ tx[s].pc = "body"
    /\ tx' = [tx EXCEPT ![s].pc = "exit", ![s].bodyExc = TRUE]
    /\ UNCHANGED owner
    /\ UNCHANGED <<daoVars, ctl>>

\* __aexit__: try: await self._transaction.commit()
\* (exc_type is never read: the commit is attempted on every exit)
AexitCommit(s) ==
    /\ tx[s].pc = "exit"
    /\ tx' = [tx EXCEPT ![s].txn = "committed", ![s].pc = "finally"]
    /\ UNCHANGED owner
    /\ UNCHANGED <<daoVars, ctl>>

\* __aexit__: commit() raises, control enters `except Exception as e`
AexitCommitFail(s) ==
    /\ tx[s].pc = "exit"
    /\ tx' = [tx EXCEPT ![s].commitExc = TRUE, ![s].pc = "except"]
    /\ UNCHANGED owner
    /\ UNCHANGED <<daoVars, ctl>>

\* __aexit__: await self._transaction.rollback(); raise e
AexitRollback(s) ==
    /\ tx[s].pc = "except"
    /\ tx' = [tx EXCEPT ![s].txn = "rolledback", ![s].rollbacks = @ + 1,
                        ![s].pending = "commit", ![s].pc = "finally"]
    /\ UNCHANGED owner
    /\ UNCHANGED <<daoVars, ctl>>

\* a rollback that re-raises the commit failure although rollback() raised
AexitRollbackFailMasked(s) ==
    /\ tx[s].pc = "except"
    /\ tx' = [tx EXCEPT ![s].rollbacks = @ + 1,
                        ![s].pending = "commit", ![s].pc = "finally"]
    /\ UNCHANGED owner
    /\ UNCHANGED <<daoVars, ctl>>

\* __aexit__: rollback() raises inside the except clause; `raise e` is not
\* reached and the rollback failure propagates
AexitRollbackFail(s) ==
    /\ tx[s].pc = "except"
    /\ tx' = [tx EXCEPT ![s].rollbacks = @ + 1,
                        ![s].pending = "rollback", ![s].pc = "finally"]
    /\ UNCHANGED owner
    /\ UNCHANGED <<daoVars, ctl>>

\* __aexit__: finally: await self._connect.close(); then the pending
\* exception propagates; with none pending __aexit__ returns None, which
\* lets the body's exception (if any) propagate
AexitClose(s) ==
    /\ tx[s].pc = "finally"
    /\ owner' = [owner EXCEPT ![tx[s].connect] = 0]
    /\ tx' = [tx EXCEPT ![s].pc = "left",
                        ![s].raised = IF tx[s].pending # "none" THEN tx[s].pending
                                      ELSE IF tx[s].bodyExc THEN "body"
                                      ELSE "none"]
    /\ UNCHANGED <<daoVars, ctl>>

(***************************************************************************)
(* Values.  Every column value is an integer: NULL stands for None / SQL   *)
(* NULL, timestamps and users are positive integers, and a string is the   *)
(* positive integer whose decimal digits are its characters (so the string *)
(* "12" starts with "1").  Keys of mappings (column names, filter keys)    *)
(* are sequences of characters.                                            *)
(***************************************************************************)
NULL == 0

c_id == <<"i", "d">>
c_name == <<"n", "a", "m", "e">>
c_deleted_at == <<"d", "e", "l", "e", "t", "e", "d", "_", "a", "t">>
c_created_at == <<"c", "r", "e", "a", "t", "e", "d", "_", "a", "t">>
c_created_by == <<"c", "r", "e", "a", "t", "e", "d", "_", "b", "y">>
c_updated_at == <<"u", "p", "d", "a", "t", "e", "d", "_", "a", "t">>
c_updated_by == <<"u", "p", "d", "a", "t", "e", "d", "_", "b", "y">>

\* table.c: the columns of cls.__db__[cls.__tablename__]
Columns ==
    {c_id, c_name, c_deleted_at, c_created_at, c_created_by, c_updated_at, c_updated_by}

\* the operator prefixes search_sql tests with startswith
p_gt == <<"_", "g", "t", "_">>
p_gte == <<"_", "g", "t", "e", "_">>
p_lt == <<"_", "l", "t", "_">>
p_lte == <<"_", "l", "t", "e", "_">>
p_like == <<"_", "l", "i", "k", "e", "_">>
p_in == <<"_", "i", "n", "_">>

\* str.startswith
StartsWith(k, p) == Len(k) >= Len(p) /\ SubSeq(k, 1, Len(p)) = p

\* the slice k[n:]
Strip(k, n) == SubSeq(k, n + 1, Len(k))

\* a mapping (dict) is the sequence of its items in insertion order; an item
\* is [k |-> key, v |-> value]; a value is a scalar [list |-> FALSE, x |-> n]
\* or a list [list |-> TRUE, xs |-> <<...>>]
Sc(n) == [list |-> FALSE, x |-> n]
Li(xs) == [list |-> TRUE, xs |-> xs]
Item(k, v) == [k |-> k, v |-> v]

\* a value that is True or False
Bo(b) == [list |-> FALSE, bool |-> TRUE, x |-> b]

\* `if v:` on a value: False, None and 0 are false
Truthy(v) == IF "bool" \in DOMAIN v THEN v.x ELSE v.x # 0

\* key in dict
HasKey(d, k) == \E i \in 1..Len(d) : d[i].k = k

\* dict[k] for a key it holds
Lookup(d, k) == d[CHOOSE i \in 1..Len(d) : d[i].k = k].v

\* dict[k] = v: replaces the value of a key in place, appends a new key
SetKey(d, k, v) ==
    IF HasKey(d, k)
    THEN [i \in 1..Len(d) |-> IF d[i].k = k THEN Item(k, v) ELSE d[i]]
    ELSE Append(d, Item(k, v))

\* search_sql, lines 36-40: a value that is not a list is wrapped in one
ValuesOf(v) == IF ~v.list THEN <<v.x>> ELSE v.xs

(***************************************************************************)
(* search_sql: the filter compiler.  The compiled statement is the list of *)
(* its where-conditions [op, col, v] (v a list for "in"); resolving a      *)
(* column the table does not have raises AttributeError(name), as          *)
(* getattr(table.c, name) does.                                            *)
(***************************************************************************)
Cond(op, col, v) == [op |-> op, col |-> col, v |-> v]

Compiled(conds) == [err |-> "none", key |-> <<>>, conds |-> conds]
Raised(e, key) == [err |-> e, key |-> key, conds |-> <<>>]

\* a loop that skips a column the table lacks, as update's hasattr test does
ForEachValueSkip(op, col, values) ==
    IF values = <<>> \/ col \notin Columns THEN Compiled(<<>>)
    ELSE Compiled([i \in 1..Len(values) |-> Cond(op, col, values[i])])

\* `for v in values: sql = sql.where(getattr(table.c, col) <op> v)`:
\* getattr is evaluated once per value, never for an empty list
ForEachValue(op, col, values) ==
    IF values = <<>> THEN Compiled(<<>>)
    ELSE IF col \notin Columns THEN Raised("AttributeError", col)
    ELSE Compiled([i \in 1..Len(values) |-> Cond(op, col, values[i])])

\* one round of the loop over query.keys(), lines 36-59
CompileKey(k, v) ==
    LET values == ValuesOf(v) IN
    IF StartsWith(k, p_gt) THEN ForEachValue("gt", Strip(k, 4), values)
    ELSE IF StartsWith(k, p_gte) THEN ForEachValue("gte", Strip(k, 5), values)
    ELSE IF StartsWith(k, p_lt) THEN ForEachValue("lt", Strip(k, 4), values)
    ELSE IF StartsWith(k, p_lte) THEN ForEachValue("lte", Strip(k, 5), values)
    ELSE IF StartsWith(k, p_like) THEN ForEachValue("like", Strip(k, 6), values)
    ELSE IF StartsWith(k, p_in) THEN
        IF Strip(k, 4) \notin Columns THEN Raised("AttributeError", Strip(k, 4))
        ELSE Compiled(<<Cond("in", Strip(k, 4), values)>>)
    ELSE IF k \notin Columns THEN Raised("AttributeError", k)
    ELSE IF values = <<>> THEN Raised("IndexError", k)
    ELSE Compiled(<<Cond("eq", k, values[1])>>)

RECURSIVE search_from(_, _, _)
search_from(query, i, conds) ==
    IF i > Len(query) THEN Compiled(conds)
    ELSE LET r == CompileKey(query[i].k, query[i].v) IN
         IF r.err # "none" THEN r
         ELSE search_from(query, i + 1, conds \o r.conds)

\* search_sql(sql, query, table) on a statement without conditions
search_sql(query) == search_from(query, 1, <<>>)

(***************************************************************************)
(* What the database answers.                                              *)
(***************************************************************************)
PCT == 0    \* the character '%' of a LIKE pattern

\* the characters of a string
RECURSIVE Chars(_)
Chars(n) == IF n < 10 THEN <<n>> ELSE Append(Chars(n \div 10), n % 10)

\* s LIKE pattern, '%' matching any run of characters
RECURSIVE LikeMatch(_, _)
LikeMatch(s, pat) ==
    IF pat = <<>> THEN s = <<>>
    ELSE IF Head(pat) = PCT
         THEN \E i \in 0..Len(s) : LikeMatch(SubSeq(s, i + 1, Len(s)), Tail(pat))
         ELSE s # <<>> /\ Head(s) = Head(pat) /\ LikeMatch(Tail(s), Tail(pat))

\* the pattern of line 55: v + '%'
LikePattern(v) == Append(Chars(v), PCT)

\* column == v: sqlalchemy renders `== None` as IS NULL; any other
\* comparison with NULL selects nothing
SqlEq(x, v) == IF v = NULL THEN x = NULL ELSE x # NULL /\ x = v

CondHolds(c, row) ==
    LET x == row[c.col] IN
    CASE c.op = "eq" -> SqlEq(x, c.v)
      [] c.op = "gt" -> x # NULL /\ c.v # NULL /\ x > c.v
      [] c.op = "gte" -> x # NULL /\ c.v # NULL /\ x >= c.v
      [] c.op = "lt" -> x # NULL /\ c.v # NULL /\ x < c.v
      [] c.op = "lte" -> x # NULL /\ c.v # NULL /\ x <= c.v
      [] c.op = "like" -> x # NULL /\ c.v # NULL
                          /\ LikeMatch(Chars(x), LikePattern(c.v))
      [] c.op = "like_v" -> x # NULL /\ c.v # NULL /\ LikeMatch(Chars(x), Chars(c.v))
      [] c.op = "like_pv" -> x # NULL /\ c.v # NULL
                             /\ LikeMatch(Chars(x), <<PCT>> \o Chars(c.v))
      [] c.op = "in" -> x # NULL /\ \E i \in 1..Len(c.v) :
                                       c.v[i] # NULL /\ x = c.v[i]

\* the rows a statement with these where-conditions selects
Select(T, conds) == {r \in T : \A i \in 1..Len(conds) : CondHolds(conds[i], r)}

(***************************************************************************)
(* The repository reads of BaseDao, with the reformatter of                *)
(* BusinessBaseDao.  A read returns [err, key, rows, n]: the exception it  *)
(* raised ("none" when it returned), the rows it returned in order (get,   *)
(* first and last: none or one) and, for count, the number.  An operator   *)
(* yields the set of results the database may give: rows that the          *)
(* statement does not order come in any order.                             *)
(***************************************************************************)
Ok(rows, n) == [err |-> "none", key |-> <<>>, rows |-> rows, n |-> n]
Fail(c) == [err |-> c.err, key |-> c.key, rows |-> <<>>, n |-> 0]

\* an optional argument: <<>> is None, <<d>> is the mapping d
None == <<>>
Some(d) == <<d>>

\* a reformatter that never adds the soft-delete condition
reformatter_unscoped(data, unscoped) == data

\* BusinessBaseDao.reformatter(data, unscoped=...)
reformatter(data, unscoped) ==
    IF ~unscoped /\ ~HasKey(data, c_deleted_at)
    THEN SetKey(data, c_deleted_at, Sc(NULL))
    ELSE data

\* `if query: sql = search_sql(sql, query, table)`
where_of(query) == IF query # <<>> THEN search_sql(query) ELSE Compiled(<<>>)

\* the orders in which ORDER BY col [DESC] may return the rows S
Ordered(S, col, desc) ==
    {s \in [1..Cardinality(S) -> S] :
        /\ \A i, j \in 1..Cardinality(S) : i # j => s[i] # s[j]
        /\ \A i, j \in 1..Cardinality(S) :
              i < j => IF desc THEN s[i][col] >= s[j][col]
                               ELSE s[i][col] <= s[j][col]}

\* getattr(table.c, name, table.c.id)
ColumnOr(name) == IF name \in Columns THEN name ELSE c_id

\* res.first()
FirstOf(seqs) == {IF s = <<>> THEN Ok(<<>>, 0) ELSE Ok(<<s[1]>>, 1) : s \in seqs}

\* BaseDao.get
get(T, query, unscoped) ==
    LET c == where_of(reformatter(query, unscoped)) IN
    IF c.err # "none" THEN {Fail(c)}
    ELSE LET S == Select(T, c.conds) IN
         IF S = {} THEN {Ok(<<>>, 0)} ELSE {Ok(<<r>>, 1) : r \in S}

\* BaseDao.first
first(T, query, sorter_key, unscoped) ==
    LET c == where_of(reformatter(query, unscoped)) IN
    IF c.err # "none" THEN {Fail(c)}
    ELSE FirstOf(Ordered(Select(T, c.conds), ColumnOr(sorter_key), TRUE))

\* BaseDao.last
lastrow(T, query, sorter_key, unscoped) ==
    LET c == where_of(reformatter(query, unscoped)) IN
    IF c.err # "none" THEN {Fail(c)}
    ELSE FirstOf(Ordered(Select(T, c.conds), ColumnOr(sorter_key), FALSE))

k_per_page == <<"_", "p", "e", "r", "_", "p", "a", "g", "e">>
k_page == <<"_", "p", "a", "g", "e">>
k_order_by == <<"_", "o", "r", "d", "e", "r", "_", "b", "y">>
k_desc == <<"_", "d", "e", "s", "c">>

DefaultPageSize == 30

\* dict.get(k): None for a key the mapping lacks
GetOr(d, k, default) == IF HasKey(d, k) THEN Lookup(d, k).x ELSE default

\* a statement without LIMIT / OFFSET
NotSet == -1

\* a pager whose page without per_page sets the offset and no limit
PagingNoDefault(pager) ==
    IF pager = None THEN [limit |-> NotSet, offset |-> NotSet]
    ELSE LET per_page == GetOr(pager[1], k_per_page, NULL)
             page == GetOr(pager[1], k_page, NULL)
         IN  [limit |-> IF per_page # 0 THEN per_page ELSE NotSet,
              offset |-> IF page # 0
                         THEN (page - 1) * (IF per_page # 0 THEN per_page ELSE DefaultPageSize)
                         ELSE NotSet]

\* lines 187-196: [limit, offset] of the statement; `if per_page:` and
\* `if page:` are false for None and for 0
Paging(pager) ==
    IF pager = None THEN [limit |-> NotSet, offset |-> NotSet]
    ELSE LET per_page == GetOr(pager[1], k_per_page, NULL)
             page == GetOr(pager[1], k_page, NULL)
             isNone == ~HasKey(pager[1], k_per_page)
             limit1 == IF per_page # 0 THEN per_page ELSE NotSet
         IN  IF page # 0
             THEN IF isNone
                  THEN [limit |-> DefaultPageSize, offset |-> (page - 1) * DefaultPageSize]
                  ELSE [limit |-> limit1, offset |-> (page - 1) * per_page]
             ELSE [limit |-> limit1, offset |-> NotSet]

\* lines 197-204: [col, desc] of ORDER BY
Ordering(sorter) ==
    LET d == IF sorter = None THEN <<>> ELSE sorter[1] IN
    [col |-> ColumnOr(GetOr(d, k_order_by, c_id)),
     desc |-> IF HasKey(d, k_desc) THEN Truthy(Lookup(d, k_desc)) ELSE TRUE]

\* LIMIT / OFFSET applied to the ordered rows
Window(s, pg) ==
    LET from == IF pg.offset = NotSet THEN 0 ELSE pg.offset
        upto == IF pg.limit = NotSet THEN Len(s)
                ELSE IF from + pg.limit < Len(s) THEN from + pg.limit ELSE Len(s)
    IN  SubSeq(s, from + 1, upto)

\* BaseDao.query
query(T, q, pager, sorter, unscoped) ==
    LET c == where_of(reformatter(q, unscoped)) IN
    IF c.err # "none" THEN {Fail(c)}
    ELSE LET o == Ordering(sorter) IN
         {Ok(Window(s, Paging(pager)), 0) : s \in Ordered(Select(T, c.conds), o.col, o.desc)}

\* BaseDao.count
count(T, q, unscoped) ==
    LET c == where_of(reformatter(q, unscoped)) IN
    IF c.err # "none" THEN {Fail(c)}
    ELSE {Ok(<<>>, Cardinality(Select(T, c.conds)))}

(***************************************************************************)
(* The older package async_esayapi: DaoMetaClass.query and                 *)
(* DaoMetaClass.count each build their conditions inline, from a mapping   *)
(* of key to list of values.                                               *)
(***************************************************************************)
\* one round of `for k, values in query.items()`; likeop is the condition
\* the _like_ branch of the caller builds
esay_key(k, values, likeop) ==
    IF values = <<>> THEN Compiled(<<>>)
    ELSE IF StartsWith(k, p_gt) THEN ForEachValue("gt", Strip(k, 4), values)
    ELSE IF StartsWith(k, p_gte) THEN ForEachValue("gte", Strip(k, 5), values)
    ELSE IF StartsWith(k, p_lt) THEN ForEachValue("lt", Strip(k, 4), values)
    ELSE IF StartsWith(k, p_lte) THEN ForEachValue("lte", Strip(k, 5), values)
    ELSE IF StartsWith(k, p_like) THEN ForEachValue(likeop, Strip(k, 6), values)
    ELSE IF k \notin Columns THEN Raised("AttributeError", k)
    ELSE Compiled(<<Cond("in", k, values)>>)

RECURSIVE esay_from(_, _, _, _)
esay_from(q, i, conds, likeop) ==
    IF i > Len(q) THEN Compiled(conds)
    ELSE LET r == esay_key(q[i].k, q[i].v.xs, likeop) IN
         IF r.err # "none" THEN r
         ELSE esay_from(q, i + 1, conds \o r.conds, likeop)

\* DaoMetaClass.query(query=q): `.like(v)`
esay_query(T, q) ==
    LET c == esay_from(q, 1, <<>>, "like_v") IN
    IF c.err # "none" THEN {Fail(c)}
    ELSE {Ok(s, 0) : s \in Ordered(Select(T, c.conds), c_id, TRUE)}

\* DaoMetaClass.count(query=q): `.like("%" + v)`
esay_count(T, q) ==
    LET c == esay_from(q, 1, <<>>, "like_pv") IN
    IF c.err # "none" THEN {Fail(c)}
    ELSE {Ok(<<>>, Cardinality(Select(T, c.conds)))}

(***************************************************************************)
(* The repository writes.  A write returns [err, key, T, n]: the table it  *)
(* leaves and the number the call returns (the new id of insert, the       *)
(* number of rows the UPDATE changed).                                     *)
(***************************************************************************)
Wrote(T, n) == [err |-> "none", key |-> <<>>, T |-> T, n |-> n]

\* a where clause in which a key that is no column selects no row
where_conds_strict(where_dict) ==
    [i \in 1..Len(where_dict) |->
        IF where_dict[i].k \in Columns
        THEN Cond("eq", where_dict[i].k, where_dict[i].v.x)
        ELSE Cond("in", c_id, <<>>)]

\* lines 263-265: a where key is a condition only when hasattr(table.c, key)
where_conds(where_dict) ==
    LET cols == {i \in 1..Len(where_dict) : where_dict[i].k \in Columns}
        nth[n \in 0..Len(where_dict)] ==
            IF n = 0 THEN <<>>
            ELSE IF n \in cols
                 THEN Append(nth[n - 1], Cond("eq", where_dict[n].k, where_dict[n].v.x))
                 ELSE nth[n - 1]
    IN  nth[Len(where_dict)]

\* UPDATE ... SET **data on one row
SetValues(row, data) ==
    [c \in Columns |-> IF HasKey(data, c) THEN Lookup(data, c).x ELSE row[c]]

\* BaseDao.update
update(T, where_dict, data, unscoped) ==
    LET w == reformatter(where_dict, unscoped)
        d == reformatter(data, unscoped)
        hit == Select(T, where_conds(w))
    IN  Wrote((T \ hit) \cup {SetValues(r, d) : r \in hit}, Cardinality(hit))

\* BaseDao.delete: DELETE FROM table WHERE ...
delete(T, where_dict, unscoped) ==
    LET w == reformatter(where_dict, unscoped)
        hit == Select(T, where_conds(w))
    IN  Wrote(T \ hit, Cardinality(hit))

\* BaseDao.insert: INSERT ... VALUES **data; columns not named are NULL and
\* id is generated
insert(T, data, unscoped, newid) ==
    LET d == reformatter(data, unscoped)
        row == [c \in Columns |-> IF HasKey(d, c) THEN Lookup(d, c).x
                                  ELSE IF c = c_id THEN newid ELSE NULL]
    IN  Wrote(T \cup {row}, newid)

\* a business update that forgets to stamp updated_by
business_update_no_user(T, where_dict, data, unscoped, modify_by, now) ==
    update(T, where_dict, SetKey(data, c_updated_at, Sc(now)), unscoped)

\* BusinessBaseDao.update
business_update(T, where_dict, data, unscoped, modify_by, now) ==
    update(T, where_dict,
           SetKey(SetKey(data, c_updated_at, Sc(now)), c_updated_by, Sc(modify_by)),
           unscoped)

\* a business delete that removes the rows
business_delete_physical(T, where_dict, unscoped, modify_by, now) ==
    delete(T, where_dict, unscoped)

\* a business delete that reaches the soft-deleted rows as well
business_delete_rescoped(T, where_dict, unscoped, modify_by, now) ==
    update(T, where_dict,
           <<Item(c_deleted_at, Sc(now)), Item(c_updated_by, Sc(modify_by))>>,
           TRUE)

\* BusinessBaseDao.delete
business_delete(T, where_dict, unscoped, modify_by, now) ==
    update(T, where_dict,
           <<Item(c_deleted_at, Sc(now)), Item(c_updated_by, Sc(modify_by))>>,
           unscoped)

\* BusinessBaseDao.insert
business_insert(T, data, unscoped, modify_by, now, newid) ==
    insert(T,
           SetKey(SetKey(data, c_created_at, Sc(now)), c_created_by, Sc(modify_by)),
           unscoped, newid)

(***************************************************************************)
(* The calls made on a BusinessBaseDao repository.                         *)
(***************************************************************************)
Users == {1, 2}
Names == {1, 12}
Stamps == 1..MaxClock

k_x == <<"x">>     \* a name that is no column of the table

Call(op, q, data, unscoped, by, now, out) ==
    [op |-> op, q |-> q, data |-> data, unscoped |-> unscoped, by |-> by,
     now |-> now, out |-> out]

NoCall == Call("none", <<>>, <<>>, FALSE, NULL, NULL, Ok(<<>>, 0))

\* where mappings of update and delete
WhereDicts ==
    {<<>>, <<Item(c_id, Sc(1))>>, <<Item(k_x, Sc(1))>>, <<Item(c_deleted_at, Sc(2))>>,
     <<Item(p_gt \o c_id, Sc(1))>>}

\* data mappings of update
UpdateDicts == {<<Item(c_name, Sc(12))>>, <<Item(c_created_at, Sc(MaxClock))>>}

\* filter mappings of the reads
Filters ==
    WhereDicts
    \cup {<<Item(p_gt \o k_x, Sc(1))>>, <<Item(p_gt \o k_x, Li(<<>>))>>,
          <<Item(p_in \o k_x, Li(<<>>))>>, <<Item(p_gt \o c_id, Li(<<1>>))>>,
          <<Item(c_name, Li(<<1, 12>>))>>}

\* a row as business_insert stores it at time 1, soft-deleted at time 2 or not
StoredRow(id, name, by, deleted_at) ==
    [c \in Columns |->
        CASE c = c_id -> id
          [] c = c_name -> name
          [] c = c_created_at -> 1
          [] c = c_created_by -> by
          [] c = c_deleted_at -> deleted_at
          [] c = c_updated_at -> NULL
          [] c = c_updated_by -> IF deleted_at = NULL THEN NULL ELSE by]

\* the contents a table of at most MaxRows rows may have
Tables ==
    LET rows == {StoredRow(i, n, 1, d) : i \in 1..MaxRows, n \in Names, d \in {NULL, 2}}
    IN  {T \in SUBSET rows : \A r1, r2 \in T : r1[c_id] = r2[c_id] => r1 = r2}

InitDao ==
    /\ table = {}
    /\ clock = 1
    /\ autoinc = 1
    /\ last = NoCall

\* await Dao.insert(data=data, modify_by=by, unscoped=unscoped)
Insert(data, by, unscoped) ==
    /\ clock <= MaxClock
    /\ autoinc <= MaxRows
    /\ LET w == business_insert(table, data, unscoped, by, clock, autoinc) IN
          /\ table' = w.T
          /\ last' = Call("insert", <<>>, data, unscoped, by, clock, Ok(<<>>, w.n))
    /\ clock' = clock + 1
    /\ autoinc' = autoinc + 1
    /\ UNCHANGED <<txVars, ctl>>

\* await Dao.update(where_dict=where, data=data, unscoped=unscoped, modify_by=by)
Update(where, data, by, unscoped) ==
    /\ clock <= MaxClock
    /\ LET w == business_update(table, where, data, unscoped, by, clock) IN
          /\ table' = w.T
          /\ last' = Call("update", where, data, unscoped, by, clock, Ok(<<>>, w.n))
    /\ clock' = clock + 1
    /\ UNCHANGED autoinc
    /\ UNCHANGED <<txVars, ctl>>

\* await Dao.delete(where_dict=where, unscoped=unscoped, modify_by=by)
Delete(where, by, unscoped) ==
    /\ clock <= MaxClock
    /\ LET w == business_delete(table, where, unscoped, by, clock) IN
          /\ table' = w.T
          /\ last' = Call("delete", where, <<>>, unscoped, by, clock, Ok(<<>>, w.n))
    /\ clock' = clock + 1
    /\ UNCHANGED autoinc
    /\ UNCHANGED <<txVars, ctl>>

\* a read returns one of the results the database may give
\* await Dao.get(query=q, unscoped=unscoped)
Get(q, unscoped) ==
    /\ \E r \in get(table, q, unscoped) :
          last' = Call("get", q, <<>>, unscoped, NULL, NULL, r)
    /\ UNCHANGED <<table, clock, autoinc, txVars, ctl>>

\* await Dao.first(query=q, unscoped=unscoped)
First(q, unscoped) ==
    /\ \E r \in first(table, q, c_id, unscoped) :
          last' = Call("first", q, <<>>, unscoped, NULL, NULL, r)
    /\ UNCHANGED <<table, clock, autoinc, txVars, ctl>>

\* await Dao.last(query=q, unscoped=unscoped)
Last(q, unscoped) ==
    /\ \E r \in lastrow(table, q, c_id, unscoped) :
          last' = Call("last", q, <<>>, unscoped, NULL, NULL, r)
    /\ UNCHANGED <<table, clock, autoinc, txVars, ctl>>

\* await Dao.query(query=q, unscoped=unscoped)
Query(q, unscoped) ==
    /\ \E r \in query(table, q, None, None, unscoped) :
          last' = Call("query", q, <<>>, unscoped, NULL, NULL, r)
    /\ UNCHANGED <<table, clock, autoinc, txVars, ctl>>

\* await Dao.count(query=q, unscoped=unscoped)
Count(q, unscoped) ==
    /\ \E r \in count(table, q, unscoped) :
          last' = Call("count", q, <<>>, unscoped, NULL, NULL, r)
    /\ UNCHANGED <<table, clock, autoinc, txVars, ctl>>

(***************************************************************************)
(* The controller facade (controller.py, ControllerMetaClass) over a       *)
(* BusinessBaseDao repository; one controller call is in flight at a time. *)
(*   op, q, pager, sorter, id   the call and its arguments                 *)
(*   list, cnt   the two awaitables handed to asyncio.gather: "pending",   *)
(*               "returned" or "raised", with the result                   *)
(*   exc         the first exception a sub-task raised                     *)
(*   driver      the storage driver raised during the call                 *)
(*   out         what the caller of the controller gets                    *)
(***************************************************************************)
\* the DBAPI error classes of sqlalchemy.exc, and those the controller catches
DriverErrors ==
    {"OperationalError", "IntegrityError", "DataError", "ProgrammingError", "InternalError"}
Caught == {"OperationalError", "IntegrityError", "DataError"}

\* modify_by: str = ''
Blank == -2

Task(st, r) == [st |-> st, r |-> r]
NoTask == Task("none", Ok(<<>>, 0))

Out(status, code, http, rows, total) ==
    [status |-> status, code |-> code, http |-> http, rows |-> rows, total |-> total]
NoOut == Out("none", 0, 0, <<>>, 0)

\* return res / return res, total
Returned(rows, total) == Out("ok", 0, 0, rows, total)

\* raise BusinessError(code=500, http_code=http, err_info=...)
BusinessError(http) == Out("BusinessError", 500, http, <<>>, 0)

\* try: ... except (OperationalError, IntegrityError, DataError) as e:
\* an exception of another class propagates to the caller as it is
Handle(e) == IF e \in Caught THEN BusinessError(500) ELSE Out(e, 0, 0, <<>>, 0)

CtlIdle ==
    [pc |-> "idle", op |-> "none", q |-> <<>>, pager |-> None, sorter |-> None,
     id |-> NULL, list |-> NoTask, cnt |-> NoTask, exc |-> "none",
     driver |-> FALSE, out |-> NoOut]

Done(op, q, id, driver, out) ==
    [CtlIdle EXCEPT !.pc = "done", !.op = op, !.q = q, !.id = id,
                    !.driver = driver, !.out = out]

CanCall == ctl.pc \in {"idle", "done"}

IdQuery(id) == <<Item(c_id, Sc(id))>>

\* ControllerMetaClass.get: data = await cls.__dao__.query(query={"id": id})
CtlGet(id) ==
    /\ CanCall
    /\ \/ \E r \in query(table, IdQuery(id), None, None, FALSE) :
             ctl' = Done("get", IdQuery(id), id, FALSE,
                         IF r.err # "none" THEN Handle(r.err)
                         ELSE IF r.rows = <<>> THEN Returned(<<>>, 0)
                         ELSE Returned(<<r.rows[1]>>, 0))
       \/ \E e \in DriverErrors :
             ctl' = Done("get", IdQuery(id), id, TRUE, Handle(e))
    /\ UNCHANGED <<txVars, daoVars>>

\* ControllerMetaClass.query: the call, up to asyncio.gather(...)
CtlQuery(q, pager, sorter) ==
    /\ CanCall
    /\ ctl' = [CtlIdle EXCEPT !.pc = "gather", !.op = "query", !.q = q,
                              !.pager = pager, !.sorter = sorter,
                              !.list = Task("pending", Ok(<<>>, 0)),
                              !.cnt = Task("pending", Ok(<<>>, 0))]
    /\ UNCHANGED <<txVars, daoVars>>

\* a sub-task ends: it returned r, or raised r.err
Ended(r) == Task(IF r.err = "none" THEN "returned" ELSE "raised", r)
FirstExc(r) == IF ctl.exc = "none" /\ r.err # "none" THEN r.err ELSE ctl.exc

\* the mapping a positional argument in the place of `query` becomes:
\* `if query is None: query = {}`
AsQuery(arg) == IF arg = None THEN <<>> ELSE arg[1]

\* cls.__dao__.query(query, pager, sorter): the signature is
\* query(cls, ctx, query, pager, sorter), so the filter is bound to ctx, the
\* pager to query and the sorter to pager
CtlListRun ==
    /\ ctl.pc = "gather"
    /\ ctl.list.st = "pending"
    /\ \/ \E r \in query(table, AsQuery(ctl.pager), ctl.sorter, None, FALSE) :
             ctl' = [ctl EXCEPT !.list = Ended(r), !.exc = FirstExc(r)]
       \/ \E e \in DriverErrors :
             /\ \A r \in query(table, AsQuery(ctl.pager), ctl.sorter, None, FALSE) :
                   r.err = "none"
             /\ ctl' = [ctl EXCEPT !.list = Ended(Fail(Raised(e, <<>>))),
                                   !.exc = FirstExc(Raised(e, <<>>)),
                                   !.driver = TRUE]
    /\ UNCHANGED <<txVars, daoVars>>

\* cls.__dao__.count(query): the signature is count(cls, ctx, query), so the
\* filter is bound to ctx and query stays None
CtlCountRun ==
    /\ ctl.pc = "gather"
    /\ ctl.cnt.st = "pending"
    /\ \/ \E r \in count(table, <<>>, FALSE) :
             ctl' = [ctl EXCEPT !.cnt = Ended(r), !.exc = FirstExc(r)]
       \/ \E e \in DriverErrors :
             ctl' = [ctl EXCEPT !.cnt = Ended(Fail(Raised(e, <<>>))),
                                !.exc = FirstExc(Raised(e, <<>>)),
                                !.driver = TRUE]
    /\ UNCHANGED <<txVars, daoVars>>

\* asyncio.gather returns both results, or raises the first exception of a
\* sub-task as soon as it is raised; then `return res, total` or the except
CtlGatherReturn ==
    /\ ctl.pc = "gather"
    /\ \/ /\ ctl.exc # "none"
          /\ ctl' = [ctl EXCEPT !.pc = "done", !.out = Handle(ctl.exc)]
       \/ /\ ctl.list.st = "returned" /\ ctl.cnt.st = "returned"
          /\ ctl' = [ctl EXCEPT !.pc = "done",
                                !.out = Returned(ctl.list.r.rows, ctl.cnt.r.n)]
    /\ UNCHANGED <<txVars, daoVars>>

\* ControllerMetaClass.insert: the validator rejects the data
CtlInsertInvalid(data) ==
    /\ CanCall
    /\ ctl' = Done("insert", data, NULL, FALSE, BusinessError(200))
    /\ UNCHANGED <<txVars, daoVars>>

\* ControllerMetaClass.insert: res = await cls.__dao__.insert(data=data)
CtlInsert(data) ==
    /\ CanCall
    /\ clock <= MaxClock
    /\ autoinc <= MaxRows
    /\ \/ /\ LET w == business_insert(table, data, FALSE, Blank, clock, autoinc) IN
                /\ table' = w.T
                /\ ctl' = Done("insert", data, NULL, FALSE, Returned(<<>>, w.n))
          /\ autoinc' = autoinc + 1
       \/ /\ \E e \in DriverErrors : ctl' = Done("insert", data, NULL, TRUE, Handle(e))
          /\ UNCHANGED <<table, autoinc>>
    /\ clock' = clock + 1
    /\ UNCHANGED <<txVars, last>>

\* ControllerMetaClass.update: the validator rejects the data
CtlUpdateInvalid(id, data) ==
    /\ CanCall
    /\ ctl' = Done("update", data, id, FALSE, BusinessError(200))
    /\ UNCHANGED <<txVars, daoVars>>

\* ControllerMetaClass.update:
\* res = await cls.__dao__.update(where_dict={"id": id}, data=data)
CtlUpdate(id, data) ==
    /\ CanCall
    /\ clock <= MaxClock
    /\ \/ LET w == business_update(table, IdQuery(id), data, FALSE, Blank, clock) IN
             /\ table' = w.T
             /\ ctl' = Done("update", data, id, FALSE, Returned(<<>>, w.n))
       \/ /\ \E e \in DriverErrors : ctl' = Done("update", data, id, TRUE, Handle(e))
          /\ UNCHANGED table
    /\ clock' = clock + 1
    /\ UNCHANGED <<txVars, autoinc, last>>

\* ControllerMetaClass.delete: res = await cls.__dao__.delete(where_dict={"id": id})
CtlDelete(id) ==
    /\ CanCall
    /\ clock <= MaxClock
    /\ \/ LET w == business_delete(table, IdQuery(id), FALSE, Blank, clock) IN
             /\ table' = w.T
             /\ ctl' = Done("delete", <<>>, id, FALSE, Returned(<<>>, w.n))
       \/ /\ \E e \in DriverErrors : ctl' = Done("delete", <<>>, id, TRUE, Handle(e))
          /\ UNCHANGED table
    /\ clock' = clock + 1
    /\ UNCHANGED <<txVars, autoinc, last>>

NextDao ==
    \/ \E n \in Names, by \in Users : Insert(<<Item(c_name, Sc(n))>>, by, FALSE)
    \/ \E w \in WhereDicts, d \in UpdateDicts, by \in Users, u \in BOOLEAN :
          Update(w, d, by, u)
    \/ \E w \in WhereDicts, by \in Users, u \in BOOLEAN : Delete(w, by, u)
    \/ \E q \in WhereDicts, u \in BOOLEAN : Get(q, u)

Init ==
    /\ InitTransaction
    /\ InitDao
    /\ ctl = CtlIdle

Next == NextDao

\* a BusinessBaseDao repository used from an empty table on
Spec == Init /\ [][Next]_vars

InitRead ==
    /\ InitTransaction
    /\ table \in Tables
    /\ clock = MaxClock
    /\ autoinc = MaxRows + 1
    /\ last = NoCall
    /\ ctl = CtlIdle

NextRead ==
    \/ \E q \in Filters, u \in BOOLEAN : Get(q, u)
    \/ \E q \in Filters, u \in BOOLEAN : First(q, u)
    \/ \E q \in Filters, u \in BOOLEAN : Last(q, u)
    \/ \E q \in Filters, u \in BOOLEAN : Query(q, u)
    \/ \E q \in Filters, u \in BOOLEAN : Count(q, u)
    \/ \E w \in WhereDicts, u \in BOOLEAN : Update(w, <<Item(c_name, Sc(12))>>, 2, u)

\* the reads and update of a BusinessBaseDao repository over any table
SpecRead == InitRead /\ [][NextRead]_vars

(***************************************************************************)
(* The query builder used on a plain BaseDao (its reformatter is the       *)
(* identity, as the business one is when unscoped), over every table    *)
(* holding rows of the ids QueryIds.                                       *)
(***************************************************************************)
QueryIds == {1, 2}
QueryTables ==
    LET rows == {StoredRow(i, n, 1, NULL) : i \in QueryIds, n \in Names}
    IN  {T \in SUBSET rows : \A r1, r2 \in T : r1[c_id] = r2[c_id] => r1 = r2}

InitQuery ==
    /\ InitTransaction
    /\ table \in QueryTables
    /\ clock = 1
    /\ autoinc = 1
    /\ last = NoCall
    /\ ctl = CtlIdle

\* await Dao.query(query=q, pager=pager, sorter=sorter); the call also
\* records the LIMIT / OFFSET / ORDER BY of the statement it executed
List(q, pager, sorter) ==
    /\ \E r \in query(table, q, pager, sorter, TRUE) :
          last' = [op |-> "list", q |-> q, data |-> <<>>, unscoped |-> TRUE,
                   by |-> NULL, now |-> NULL, out |-> r, pager |-> pager,
                   sorter |-> sorter, paging |-> Paging(pager),
                   ordering |-> Ordering(sorter)]
    /\ UNCHANGED <<table, clock, autoinc, txVars, ctl>>

\* async_esayapi: await Dao.query(query=q)
EsayQuery(q) ==
    /\ \E r \in esay_query(table, q) :
          last' = Call("esay_query", q, <<>>, TRUE, NULL, NULL, r)
    /\ UNCHANGED <<table, clock, autoinc, txVars, ctl>>

\* async_esayapi: await Dao.count(query=q)
EsayCount(q) ==
    /\ \E r \in esay_count(table, q) :
          last' = Call("esay_count", q, <<>>, TRUE, NULL, NULL, r)
    /\ UNCHANGED <<table, clock, autoinc, txVars, ctl>>

\* the filter mappings of one key: every prefix on the columns id and name,
\* with a scalar, an empty list and lists of one and two values
Prefixes == {p_gt, p_gte, p_lt, p_lte, p_like, p_in}
FilterValues == {Sc(1), Li(<<>>), Li(<<2>>), Li(<<1, 12>>)}
OneKeyFilters ==
    {<<Item(p \o c_id, v)>> : p \in {p_gt, p_gte, p_lt, p_lte}, v \in FilterValues}
    \cup {<<Item(p \o c_name, v)>> : p \in {p_like, p_in, <<>>}, v \in FilterValues}
TwoKeyFilters ==
    {<<Item(p_gte \o c_id, Sc(1)), Item(c_name, v)>> : v \in {Sc(12), Li(<<1, 12>>)}}
    \cup {<<Item(p_like \o c_name, Li(<<1>>)), Item(p_in \o c_id, Li(<<2, 1>>))>>}
QueryFilters == {<<>>} \cup OneKeyFilters \cup TwoKeyFilters
ListFilters == {<<>>}
EsayFilters == {q \in QueryFilters : \A i \in 1..Len(q) : q[i].v.list}

\* pagers and sorters
PageNumbers == {1, 2}
PageSizes == {1, 5}
QueryPagers ==
    {None, Some(<<>>)}
    \cup {Some(<<Item(k_page, Sc(p))>>) : p \in PageNumbers}
    \cup {Some(<<Item(k_per_page, Sc(n))>>) : n \in PageSizes}
    \cup {Some(<<Item(k_page, Sc(p)), Item(k_per_page, Sc(n))>>) :
              p \in PageNumbers, n \in PageSizes}
QuerySorters ==
    {None, Some(<<>>), Some(<<Item(k_order_by, Sc(c_name))>>),
     Some(<<Item(k_order_by, Sc(k_x))>>), Some(<<Item(k_desc, Bo(TRUE))>>),
     Some(<<Item(k_desc, Bo(FALSE))>>), Some(<<Item(k_desc, Sc(NULL))>>),
     Some(<<Item(k_order_by, Sc(c_name)), Item(k_desc, Bo(FALSE))>>)}

(***************************************************************************)
(* Update and delete on a plain BaseDao: no soft delete, the reformatter   *)
(* is the identity.                                                        *)
(***************************************************************************)
\* `if where_dict is None: where_dict = {}`
WhereOf(arg) == IF arg = None THEN <<>> ELSE arg[1]

\* await Dao.update(where_dict=where, data=data)
PlainUpdate(where, data) ==
    /\ LET w == update(table, WhereOf(where), data, TRUE) IN
          /\ table' = w.T
          /\ last' = Call("plain_update", WhereOf(where), data, TRUE, NULL, NULL,
                          Ok(<<>>, w.n))
    /\ UNCHANGED <<clock, autoinc, txVars, ctl>>

\* await Dao.delete(where_dict=where)
PlainDelete(where) ==
    /\ LET w == delete(table, WhereOf(where), TRUE) IN
          /\ table' = w.T
          /\ last' = Call("plain_delete", WhereOf(where), <<>>, TRUE, NULL, NULL,
                          Ok(<<>>, w.n))
    /\ UNCHANGED <<clock, autoinc, txVars, ctl>>

\* where mappings: absent, empty, a column, a name that is no column, a
\* prefixed column, and a column together with keys that are none
PlainWheres ==
    {None, Some(<<>>), Some(<<Item(c_id, Sc(1))>>), Some(<<Item(c_id, Sc(2))>>),
     Some(<<Item(c_name, Sc(1))>>), Some(<<Item(c_name, Sc(12))>>),
     Some(<<Item(k_x, Sc(1))>>), Some(<<Item(p_gt \o c_id, Sc(1))>>),
     Some(<<Item(p_gt \o c_id, Sc(1)), Item(k_x, Sc(1))>>),
     Some(<<Item(p_in \o c_name, Sc(1)), Item(c_id, Sc(2))>>)}
PlainData == {<<Item(c_name, Sc(n))>> : n \in Names}

NextPlain ==
    \/ \E w \in PlainWheres, d \in PlainData : PlainUpdate(w, d)
    \/ \E w \in PlainWheres : PlainDelete(w)

SpecPlain == InitQuery /\ [][NextPlain]_vars

NextQuery ==
    \/ \E q \in QueryFilters : Query(q, TRUE)
    \/ \E q \in QueryFilters : Count(q, TRUE)
    \/ \E q \in ListFilters, pg \in QueryPagers, so \in QuerySorters : List(q, pg, so)
    \/ \E q \in EsayFilters : EsayQuery(q)
    \/ \E q \in EsayFilters : EsayCount(q)

SpecQuery == InitQuery /\ [][NextQuery]_vars

\* the pagers and sorters of the controller's callers
Pagers == {None, Some(<<Item(k_per_page, Sc(5))>>), Some(<<Item(k_per_page, Sc(1))>>)}
Sorters == {None, Some(<<Item(k_desc, Bo(FALSE))>>)}
CtlFilters == {<<>>, <<Item(c_name, Sc(12))>>}

NextCtl ==
    \/ \E id \in 1..MaxRows : CtlGet(id)
    \/ \E q \in CtlFilters, pg \in Pagers, so \in Sorters : CtlQuery(q, pg, so)
    \/ CtlListRun
    \/ CtlCountRun
    \/ CtlGatherReturn
    \/ \E n \in Names : CtlInsertInvalid(<<Item(c_name, Sc(n))>>)
    \/ \E n \in Names : CtlInsert(<<Item(c_name, Sc(n))>>)
    \/ \E id \in 1..MaxRows : CtlUpdateInvalid(id, <<Item(c_name, Sc(12))>>)
    \/ \E id \in 1..MaxRows : CtlUpdate(id, <<Item(c_name, Sc(12))>>)
    \/ \E id \in 1..MaxRows : CtlDelete(id)

SpecCtl == Init /\ [][NextCtl]_vars

(***************************************************************************)
(* Transaction scopes sharing one connection pool.                         *)
(***************************************************************************)
NextTx ==
    \E s \in Scopes :
          \/ AenterAcquire(s)
          \/ AenterAcquireFail(s)
          \/ AenterBegin(s)
          \/ AenterBeginFail(s)
          \/ BodyExecute(s)
          \/ BodyReturn(s)
          \/ BodyRaise(s)
          \/ AexitCommit(s)
          \/ AexitCommitFail(s)
          \/ AexitRollback(s)
          \/ AexitRollbackFail(s)
          \/ AexitClose(s)

SpecTx == Init /\ [][NextTx]_vars

\* the scope s holds no connection of the pool
Released(s) == \A c \in Conns : owner[c] # s

\* C1: a scope whose body raised is never committed, and has been rolled
\* back once it is left (so that a commit happens only after a body that
\* finished without a failure).
C1_CommitOnlyOnSuccess ==
    \A s \in Scopes :
        tx[s].bodyExc =>
            /\ tx[s].txn # "committed"
            /\ tx[s].pc = "left" => tx[s].txn = "rolledback"

\* C2: a scope that has been left, on whatever path (body success, body
\* failure, failure of begin, of commit, of rollback), holds no connection.
C2_ReleasedOnEveryExit ==
    \A s \in Scopes : tx[s].pc = "left" => Released(s)

\* C3: when commit failed, nothing is raised before a rollback was
\* attempted; once the scope is left the caller sees the commit failure if
\* the rollback succeeded and the rollback failure if it did not, and the
\* connection is released in both cases.
C3_CommitFailure ==
    \A s \in Scopes :
        tx[s].commitExc =>
            /\ tx[s].pc \in {"finally", "left"} => tx[s].rollbacks = 1
            /\ tx[s].pc # "left" => tx[s].raised = "none"
            /\ tx[s].pc = "left" =>
                  /\ tx[s].raised =
                        IF tx[s].txn = "rolledback" THEN "commit" ELSE "rollback"
                  /\ Released(s)

\* two scopes left after a failed commit, one whose rollback succeeded and
\* one whose rollback failed
C3_Witness ==
    \E s1, s2 \in Scopes :
        /\ tx[s1].pc = "left" /\ tx[s1].commitExc /\ tx[s1].txn = "rolledback"
        /\ tx[s2].pc = "left" /\ tx[s2].commitExc /\ tx[s2].txn # "rolledback"
        /\ tx[s2].rollbacks = 1

(***************************************************************************)
(* Properties of the business repository.                                  *)
(***************************************************************************)
ReadOps == {"get", "first", "last", "query", "count"}

Live(T) == {r \in T : r[c_deleted_at] = NULL}
Ids(T) == {r[c_id] : r \in T}
RowOf(T, id) == CHOOSE r \in T : r[c_id] = id

\* the step is a call of the write op
Wrote_(op) == clock' # clock /\ last'.op = op

\* every key of the mapping is a column name
OnlyColumns(d) == \A i \in 1..Len(d) : d[i].k \in Columns

C5_ReadsExcludeDeleted ==
    (/\ last.op \in ReadOps
     /\ ~last.unscoped
     /\ ~HasKey(last.q, c_deleted_at)
     /\ last.out.err = "none")
    => /\ \A i \in 1..Len(last.out.rows) : last.out.rows[i][c_deleted_at] = NULL
       /\ last.out.n <= Cardinality(Live(table))
       /\ (last.op = "count" /\ last.q = <<>>) => last.out.n = Cardinality(Live(table))

\* a scoped query over a table holding a live and a soft-deleted row
\* returned the live row alone
C5_Witness ==
    /\ last.op = "query"
    /\ last.q = <<>>
    /\ ~last.unscoped
    /\ Len(last.out.rows) = 1
    /\ Cardinality(table) = 2
    /\ \E r \in table : r[c_deleted_at] # NULL

\* C6 as claimed: a business insert stores a row with the caller's data,
\* created_at non-null and created_by = modify_by; a business update sets
\* updated_at and updated_by on the rows it matches and leaves created_at
\* and created_by of every row unchanged.
C6_AuditStamps ==
    [][/\ Wrote_("insert") =>
             \E r \in table' \ table :
                /\ r[c_id] = last'.out.n
                /\ \A i \in 1..Len(last'.data) : r[last'.data[i].k] = last'.data[i].v.x
                /\ r[c_created_at] # NULL
                /\ r[c_created_by] = last'.by
       /\ Wrote_("update") =>
             /\ Ids(table') = Ids(table)
             /\ Cardinality(table' \ table) = last'.out.n
             /\ \A r \in table :
                   LET r2 == RowOf(table', r[c_id]) IN
                   /\ r2 # r => /\ r2[c_updated_at] = last'.now
                                /\ r2[c_updated_by] = last'.by
                   /\ r2[c_created_at] = r[c_created_at]
                   /\ r2[c_created_by] = r[c_created_by]]_vars

\* C6 amended: as claimed, except that an update whose data names
\* created_at (or created_by) stores the data's value in that column of the
\* rows it matches.
C6_AuditStampsAmended ==
    [][/\ Wrote_("insert") =>
             \E r \in table' \ table :
                /\ r[c_id] = last'.out.n
                /\ \A i \in 1..Len(last'.data) : r[last'.data[i].k] = last'.data[i].v.x
                /\ r[c_created_at] # NULL
                /\ r[c_created_by] = last'.by
       /\ Wrote_("update") =>
             /\ Ids(table') = Ids(table)
             /\ Cardinality(table' \ table) = last'.out.n
             /\ \A r \in table :
                   LET r2 == RowOf(table', r[c_id]) IN
                   /\ r2 # r => /\ r2[c_updated_at] = last'.now
                                /\ r2[c_updated_by] = last'.by
                   /\ \A c \in {c_created_at, c_created_by} :
                         r2[c] = IF r2 # r /\ HasKey(last'.data, c)
                                 THEN Lookup(last'.data, c).x ELSE r[c]]_vars

\* an update by another user has just stamped a row and kept its created_by
C6_Witness ==
    /\ last.op = "update"
    /\ ~HasKey(last.data, c_created_at)
    /\ last.out.n = 1
    /\ \E r \in table :
          /\ r[c_updated_at] = last.now
          /\ r[c_updated_by] = last.by
          /\ r[c_created_by] # last.by
          /\ r[c_created_at] # NULL /\ r[c_created_at] < last.now

\* C7: after a business delete by user u, every row it soft-deleted has
\* updated_at = the time of the delete and updated_by = u.
C7_DeleteStampsUpdated ==
    last.op = "delete" =>
        \A r \in table :
            r[c_deleted_at] = last.now =>
                r[c_updated_at] = last.now /\ r[c_updated_by] = last.by

\* the column a filter key names once its operator prefix is stripped
Stripped(k) ==
    IF StartsWith(k, p_gte) \/ StartsWith(k, p_lte) THEN Strip(k, 5)
    ELSE IF StartsWith(k, p_like) THEN Strip(k, 6)
    ELSE IF StartsWith(k, p_gt) \/ StartsWith(k, p_lt) \/ StartsWith(k, p_in)
         THEN Strip(k, 4)
    ELSE k

\* the key carries a comparison or like prefix and an empty list of values
EmptyLoop(it) ==
    /\ it.v.list /\ it.v.xs = <<>>
    /\ \E p \in {p_gt, p_gte, p_lt, p_lte, p_like} : StartsWith(it.k, p)

\* after an update whose where keys all name no column, every row in scope
\* (every row when unscoped, else every live row) carries the update
UpdatedAllInScope ==
    /\ last.out.err = "none"
    /\ \A r \in table :
          (last.unscoped \/ r[c_deleted_at] = NULL) =>
              r[c_updated_at] = last.now /\ r[c_name] = Lookup(last.data, c_name).x

\* C10 as claimed: a read whose filter holds a key naming no column fails
\* with AttributeError naming that column; an update whose where mapping
\* holds only such keys does not fail and updates every row in scope.
C10_UnknownKey ==
    /\ (last.op \in ReadOps /\ Len(last.q) = 1 /\ Stripped(last.q[1].k) \notin Columns)
          => last.out.err = "AttributeError" /\ last.out.key = Stripped(last.q[1].k)
    /\ (last.op = "update" /\ Len(last.q) = 1 /\ Stripped(last.q[1].k) \notin Columns)
          => UpdatedAllInScope

\* C10 amended: the read fails unless the key carries a comparison or like
\* prefix together with an empty list of values, in which case the key is
\* dropped and the read returns.
C10_UnknownKeyAmended ==
    /\ (last.op \in ReadOps /\ Len(last.q) = 1 /\ Stripped(last.q[1].k) \notin Columns)
          => IF EmptyLoop(last.q[1])
             THEN last.out.err = "none"
             ELSE last.out.err = "AttributeError" /\ last.out.key = Stripped(last.q[1].k)
    /\ (last.op = "update" /\ Len(last.q) = 1 /\ Stripped(last.q[1].k) \notin Columns)
          => UpdatedAllInScope

\* a count by _gt_x failed naming x, over a table that holds rows
C10_Witness ==
    /\ last.op = "count"
    /\ last.q = <<Item(p_gt \o k_x, Sc(1))>>
    /\ last.out.err = "AttributeError"
    /\ last.out.key = k_x
    /\ table # {}

\* C8: a controller query that met no driver failure returns the rows
\* matching its filter, windowed by its pager and ordered by its sorter,
\* with total = the number of rows matching the filter; for filter {} and
\* per_page 5 it returns at most 5 records and total = the number of rows
\* (not soft-deleted) of the table.
C8_QueryAndCount ==
    (ctl.pc = "done" /\ ctl.op = "query" /\ ~ctl.driver) =>
        /\ \E l \in query(table, ctl.q, ctl.pager, ctl.sorter, FALSE) :
              /\ l.err = "none"
              /\ ctl.out.status = "ok"
              /\ ctl.out.rows = l.rows
        /\ \E n \in count(table, ctl.q, FALSE) : ctl.out.total = n.n
        /\ (ctl.q = <<>> /\ ctl.pager = Some(<<Item(k_per_page, Sc(5))>>)) =>
              /\ ctl.out.status = "ok"
              /\ Len(ctl.out.rows) <= 5
              /\ ctl.out.total = Cardinality(Live(table))

\* C9: a controller call during which the storage driver raised ends in
\* BusinessError with code 500 and HTTP status 500, and no controller call
\* lets another exception type reach its caller.
C9_UniformError ==
    ctl.pc = "done" =>
        /\ ctl.out.status \in {"ok", "BusinessError"}
        /\ ctl.driver => ctl.out = BusinessError(500)

(***************************************************************************)
(* The query builder: what a filter mapping selects.                       *)
(***************************************************************************)
\* a is a prefix of b
IsPrefix(a, b) == Len(a) <= Len(b) /\ SubSeq(b, 1, Len(a)) = a

\* the recognised prefixes a key starts with
PrefixesOf(k) == {p \in Prefixes : StartsWith(k, p)}

\* what one key of a filter mapping asks of a row: the operator of its
\* prefix on every value of the list, one membership test for _in_,
\* equality with the first value for a key without prefix
KeySatisfied(row, k, v) ==
    LET vs == IF v.list THEN v.xs ELSE <<v.x>>
        x == row[Stripped(k)]
    IN  CASE StartsWith(k, p_gt) -> \A j \in 1..Len(vs) : x > vs[j]
          [] StartsWith(k, p_gte) -> \A j \in 1..Len(vs) : x >= vs[j]
          [] StartsWith(k, p_lt) -> \A j \in 1..Len(vs) : x < vs[j]
          [] StartsWith(k, p_lte) -> \A j \in 1..Len(vs) : x <= vs[j]
          [] StartsWith(k, p_like) -> \A j \in 1..Len(vs) : IsPrefix(Chars(vs[j]), Chars(x))
          [] StartsWith(k, p_in) -> \E j \in 1..Len(vs) : x = vs[j]
          [] OTHER -> vs # <<>> /\ x = vs[1]

Satisfying(T, q) == {r \in T : \A i \in 1..Len(q) : KeySatisfied(r, q[i].k, q[i].v)}

\* the rows of a sequence
Range(s) == {s[i] : i \in 1..Len(s)}

\* C11: for every filter mapping whose keys name columns, the compiled
\* predicate selects exactly the rows that satisfy every key under the
\* operator of the key's one recognised prefix (each value of the list for
\* the comparisons and _like_, one membership test for _in_, the first
\* value for a key without prefix, a scalar as a one-element list).
C11_CompiledPredicate ==
    (last.op \in {"query", "count", "esay_query", "esay_count"} /\ last.unscoped) =>
        /\ \A i \in 1..Len(last.q) : Cardinality(PrefixesOf(last.q[i].k)) <= 1
        /\ last.out.err = "none"
        /\ last.op \in {"query", "esay_query"} =>
              Range(last.out.rows) = Satisfying(table, last.q)
        /\ last.op \in {"count", "esay_count"} =>
              last.out.n = Cardinality(Satisfying(table, last.q))

(***************************************************************************)
(* Paging of the list query.                                               *)
(***************************************************************************)
\* the pager's page and per_page, 0 when the pager does not hold the key
PageOf(pager) == IF pager = None THEN 0 ELSE GetOr(pager[1], k_page, 0)
PerPageOf(pager) == IF pager = None THEN 0 ELSE GetOr(pager[1], k_per_page, 0)

\* the rows left of n rows by OFFSET / LIMIT
Windowed(n, limit, offset) ==
    LET from == IF offset = NotSet THEN 0 ELSE offset
        rest == IF n > from THEN n - from ELSE 0
    IN  IF limit = NotSet \/ rest < limit THEN rest ELSE limit

\* C12: page without per_page gives OFFSET (page-1)*30 LIMIT 30; per_page
\* without page gives LIMIT per_page and no offset; both give
\* OFFSET (page-1)*per_page LIMIT per_page; no pager gives neither; the
\* query returns the rows that window leaves.
C12_Paging ==
    last.op = "list" =>
        LET page == PageOf(last.pager)
            per_page == PerPageOf(last.pager)
            pg == last.paging
        IN  /\ (page > 0 /\ per_page = 0) =>
                  pg.offset = (page - 1) * 30 /\ pg.limit = 30
            /\ (page = 0 /\ per_page > 0) =>
                  pg.limit = per_page /\ pg.offset = NotSet
            /\ (page > 0 /\ per_page > 0) =>
                  pg.offset = (page - 1) * per_page /\ pg.limit = per_page
            /\ last.pager = None => pg.limit = NotSet /\ pg.offset = NotSet
            /\ last.out.err = "none"
            /\ Len(last.out.rows) = Windowed(Cardinality(table), pg.limit, pg.offset)

\* page 2 of pages of one row, on a table of two rows: the second row
C12_Witness ==
    /\ last.op = "list"
    /\ last.pager = Some(<<Item(k_page, Sc(2)), Item(k_per_page, Sc(1))>>)
    /\ last.paging = [limit |-> 1, offset |-> 1]
    /\ Cardinality(table) = 2
    /\ Len(last.out.rows) = 1

(***************************************************************************)
(* Ordering of the list query.                                             *)
(***************************************************************************)
\* the sorter's mapping, empty when there is no sorter
SorterOf(call) == IF call.sorter = None THEN <<>> ELSE call.sorter[1]

\* the sorter holds desc and its value is the boolean False
ExplicitlyAscending(d) ==
    /\ HasKey(d, k_desc)
    /\ "bool" \in DOMAIN Lookup(d, k_desc)
    /\ ~Lookup(d, k_desc).x

\* the rows come in the order of column col, descending or ascending
InOrder(rows, col, desc) ==
    \A i, j \in 1..Len(rows) :
        i < j => IF desc THEN rows[i][col] >= rows[j][col]
                         ELSE rows[i][col] <= rows[j][col]

\* C13: the list query orders by sorter.order_by when it names a column and
\* by id when order_by is absent or unrecognised, descending in every case
\* except when sorter.desc is explicitly false.
C13_Ordering ==
    last.op = "list" =>
        LET d == SorterOf(last)
            col == IF HasKey(d, k_order_by) /\ Lookup(d, k_order_by).x \in Columns
                   THEN Lookup(d, k_order_by).x ELSE c_id
            desc == ~ExplicitlyAscending(d)
        IN  /\ last.ordering = [col |-> col, desc |-> desc]
            /\ InOrder(last.out.rows, col, desc)

(***************************************************************************)
(* The count variant against the list query.                               *)
(***************************************************************************)
\* the list results agree with a count result: both fail alike, or the
\* list holds as many records as the count says
SameNumber(lists, cnt) ==
    \A l \in lists : l.err = cnt.err /\ (l.err = "none" => Len(l.rows) = cnt.n)

\* C14: for every filter mapping and table content, count(filter) equals
\* the number of records query(filter) returns when no pager is given, in
\* async_easyapi (BaseDao) and in async_esayapi (DaoMetaClass).
C14_CountEqualsQuery ==
    /\ last.op = "count" =>
          SameNumber(query(table, last.q, None, None, last.unscoped), last.out)
    /\ last.op = "esay_count" => SameNumber(esay_query(table, last.q), last.out)

(***************************************************************************)
(* The where mapping of plain update and plain delete.                     *)
(***************************************************************************)
\* the rows of T whose columns equal the values of the keys of w that are
\* column names; every other key of w asks nothing
Matched(T, w) ==
    {r \in T : \A i \in 1..Len(w) : w[i].k \in Columns => r[w[i].k] = w[i].v.x}

NoColumnKey(w) == \A i \in 1..Len(w) : w[i].k \notin Columns

\* C15: plain update and plain delete match where keys only by exact
\* column-name equality; a key with an operator prefix or naming no column
\* contributes no condition, so a where mapping without any column key
\* (empty and absent included) applies the update or the physical delete to
\* every row of the table.
C15_WhereByColumnName ==
    [][/\ last'.op = "plain_delete" =>
            /\ table' = table \ Matched(table, last'.q)
            /\ last'.out.n = Cardinality(Matched(table, last'.q))
            /\ NoColumnKey(last'.q) => table' = {}
       /\ last'.op = "plain_update" =>
            /\ table' = {IF r \in Matched(table, last'.q)
                         THEN [r EXCEPT ![c_name] = Lookup(last'.data, c_name).x]
                         ELSE r : r \in table}
            /\ last'.out.n = Cardinality(Matched(table, last'.q))
            /\ NoColumnKey(last'.q) =>
                  \A r \in table' : r[c_name] = Lookup(last'.data, c_name).x]_vars

\* a delete whose only where key is _gt_id has removed both rows of the table
C15_Witness ==
    /\ last.op = "plain_delete"
    /\ last.q = <<Item(p_gt \o c_id, Sc(1))>>
    /\ last.out.n = 2
    /\ table = {}

(***************************************************************************)
(* Soft-deleted rows under later business writes.                          *)
(***************************************************************************)
\* the step is a business update or delete made without the unscoped flag
\* and without a deleted_at key in its where mapping
ScopedWrite ==
    /\ Wrote_("update") \/ Wrote_("delete")
    /\ ~last'.unscoped
    /\ ~HasKey(last'.q, c_deleted_at)

\* C16: a business update or business delete issued without the unscoped
\* flag and without a deleted_at key in its where mapping changes no column
\* of a soft-deleted row: its deleted_at, updated_at and updated_by stay as
\* they were, and a repeated delete does not move the deletion timestamp.
C16_DeletedRowsFrozen ==
    [][ScopedWrite => \A r \in table : r[c_deleted_at] # NULL => r \in table']_vars

\* row 1 was soft-deleted earlier and a second delete of id 1 has just run
C16_Witness ==
    /\ last.op = "delete"
    /\ ~last.unscoped
    /\ last.q = <<Item(c_id, Sc(1))>>
    /\ last.out.n = 0
    /\ \E r \in table :
          r[c_id] = 1 /\ r[c_deleted_at] # NULL /\ r[c_deleted_at] < last.now

====
